---- MODULE Spec2Model ----
(***************************************************************************)
(* Rule dispatch and racing resolution of the sentry DNS proxy             *)
(* (sentry/rules.py), together with the Rule Engine pass that drives the   *)
(* rules.  The rule variants and the race are translated from rules.py;    *)
(* the engine (evaluate) is not part of rules.py and is modelled from      *)
(* section 4.1 of the specification.  Spec is one evaluation of one query  *)
(* by the engine; PoolSpec is one racing rule with several dispatch calls  *)
(* made on it at once, which share the rule's pool.                        *)
(*                                                                         *)
(* Python values are represented as follows:                               *)
(*   - an optional value (None or x) is a sequence: << >> or << x >>;      *)
(*   - an optional filter (None or n) of a rule is a set: {} or {n};       *)
(*   - a text is a sequence of its pieces, << "a", "." >> for "a.";        *)
(*   - a dns.name.Name is a text in absolute form (it ends with ".").      *)
(***************************************************************************)
EXTENDS Integers, Sequences, FiniteSets, TLC

(***************************************************************************)
(* Bounds of the model.                                                    *)
(***************************************************************************)
\* longest RuleSet drawn in Init
MaxRules == 2

(***************************************************************************)
(* Program constants.                                                      *)
(***************************************************************************)
\* rules.py:15: defined, and read nowhere in rules.py
RETRIES == 3

\* rules.py:16
DEFAULT_TTL == 300

\* specification 4.1: maximum rewrite-chain depth, default 5
MaxDepth == 5

(***************************************************************************)
(* Texts and names.                                                        *)
(***************************************************************************)
EndsWithDot(text) == Len(text) > 0 /\ text[Len(text)] = "."

\* dns.name.from_text(text) with the default origin (the root): a relative
\* text is made absolute, an absolute one is kept.
NameFromText(text) == IF EndsWithDot(text) THEN text ELSE text \o << "." >>

\* dns.name.from_text(text, origin): the origin is appended to a relative
\* text; the origin is the root (<< "." >>) or None (<< >>), and with None a
\* relative text stays a relative name
NameFromTextOrigin(text, origin) ==
    IF EndsWithDot(text) THEN text ELSE text \o origin

\* dns.name.from_text raises EmptyLabel when a label of the text is empty: a
\* dot that opens a longer text or follows another dot
HasEmptyLabel(text) ==
    \E i \in 1..Len(text) :
        text[i] = "." /\ Len(text) > 1 /\ (i = 1 \/ text[i - 1] = ".")

\* mutant of NormaliseDst: the destination is kept as it was written
NormaliseDstAsWritten(destination) == destination

\* RedirectRule.__init__ / CNameRule.__init__: self.dst with a trailing dot.
NormaliseDst(destination) ==
    IF ~EndsWithDot(destination) THEN destination \o << "." >> ELSE destination

\* the question names a query can carry (absolute, as decoded from the wire)
Names == { << "a", "." >>, << "b", "." >> }

\* dns.rdatatype.from_text
RdTypeFromText(t) ==
    CASE t = "A" -> 1
      [] t = "CNAME" -> 5
      [] t = "MX" -> 15
      [] t = "TXT" -> 16
      [] t = "AAAA" -> 28

\* dns.rdataclass.from_text
RdClassFromText(t) ==
    CASE t = "IN" -> 1
      [] t = "CH" -> 3
      [] t = "ANY" -> 255

(***************************************************************************)
(* Rules.  Every rule record has the same fields; a variant leaves the     *)
(* fields it does not have at their empty value.                           *)
(***************************************************************************)
\* the domain pattern texts of the model and, for each, the names its
\* compiled regular expression matches (Rule.__init__: re.compile(domain))
Domains == { "^a$", "^b$", ".*" }

Compile(domain) ==
    CASE domain = "^a$" -> { << "a", "." >> }
      [] domain = "^b$" -> { << "b", "." >> }
      [] domain = ".*" -> Names

\* Rule.__init__
Rule(kind, domain) ==
    [ kind |-> kind, domain |-> domain, RE |-> Compile(domain),
      dst |-> << >>, rdtype |-> {}, rdclass |-> {},
      resolvers |-> << >>, max_workers |-> 0, pattern |-> << >> ]

\* RedirectRule.__init__
RedirectRule(domain, destination) ==
    [ Rule("Redirect", domain) EXCEPT !.dst = NormaliseDst(destination) ]

\* BlockRule inherits Rule.__init__
BlockRule(domain) == Rule("Block", domain)

\* ConditionalBlockRule.__init__: type and class are optional arguments
\* ({} when absent, {text} when given)
ConditionalBlockRule(domain, type, class) ==
    [ Rule("ConditionalBlock", domain) EXCEPT
        !.rdtype = IF type # {} THEN { RdTypeFromText(t) : t \in type } ELSE {},
        !.rdclass = IF class # {} THEN { RdClassFromText(c) : c \in class } ELSE {} ]

\* LoggingRule inherits Rule.__init__
LoggingRule(domain) == Rule("Logging", domain)

\* mutant of ResolveRule: the pool is made one worker short
ResolveRuleSmallPool(domain, resolvers) ==
    [ Rule("Resolve", domain) EXCEPT
        !.resolvers = resolvers, !.max_workers = Len(resolvers) - 1 ]

\* ResolveRule.__init__: the pool has one worker per resolver
ResolveRule(domain, resolvers) ==
    [ Rule("Resolve", domain) EXCEPT
        !.resolvers = resolvers, !.max_workers = Len(resolvers) ]

\* CNameRule.__init__
CNameRule(domain, destination, resolvers) ==
    [ Rule("CName", domain) EXCEPT
        !.dst = NormaliseDst(destination),
        !.resolvers = resolvers, !.max_workers = Len(resolvers) ]

\* RewriteRule.__init__
RewriteRule(domain, pattern) ==
    [ Rule("Rewrite", domain) EXCEPT !.pattern = pattern ]

(***************************************************************************)
(* Messages.                                                               *)
(***************************************************************************)
\* a decoded query: transaction id and question[0]
Query(id, name, rdtype, rdclass) ==
    [ id |-> id, name |-> name, rdtype |-> rdtype, rdclass |-> rdclass ]

\* dns.rrset.from_text(owner, ttl, rdclass, rdtype, text)
RRset(owner, ttl, rdclass, rdtype, rdata) ==
    [ name |-> owner, ttl |-> ttl, rdclass |-> rdclass, rdtype |-> rdtype,
      rdata |-> rdata ]

\* dns.message.make_response(message): same id, the QR flag, a copy of the
\* question section, no answer
MakeResponse(message) ==
    [ id |-> message.id, qr |-> TRUE,
      question |-> [ name |-> message.name, rdtype |-> message.rdtype,
                     rdclass |-> message.rdclass ],
      answer |-> << >> ]

\* response.to_wire(): the encoded bytes, kept here as the content they encode
ToWire(response) == [ wire |-> response ]

(***************************************************************************)
(* What a dispatch call ends with: a return value (None is << >>) or an    *)
(* exception, and the message as the call leaves it.  The variants that    *)
(* do not race also carry the log lines the call wrote.                    *)
(***************************************************************************)
Return(value, message) == [ ret |-> value, exc |-> << >>, message |-> message ]

Raise(error, message) == [ ret |-> << >>, exc |-> << error >>, message |-> message ]

\* the keyword arguments of a dispatch call (**extras): the key 'context' is
\* absent (<< >>) or bound to a mapping, a set of << key, value >> pairs
Extras(context) == [ context |-> context ]

ExtrasSet ==
    { Extras(<< >>), Extras(<< {} >>),
      Extras(<< { << "client", "10.9.9.9" >> } >>) }

\* extras.pop('context', {})
PopContext(extras) == IF extras.context = << >> THEN {} ELSE extras.context[1]

\* log.warn / log.info of a line made of the question name, the rule's domain
\* and the context
LogLine(level, text, self, message, context) ==
    [ level |-> level, text |-> text, name |-> message.name,
      domain |-> self.domain, context |-> context ]

\* a call that ended with `out` after writing the log lines `lines`
Logged(out, lines) ==
    [ ret |-> out.ret, exc |-> out.exc, message |-> out.message, log |-> lines ]

\* what the caller of dispatch gets: the outcome without the log
Outcome(out) == [ ret |-> out.ret, exc |-> out.exc, message |-> out.message ]

\* mutant of RedirectDispatch: the question of the query is renamed to the
\* destination before the response is made
RedirectDispatchRenames(self, message, extras) ==
    LET renamed == [ message EXCEPT !.name = NameFromTextOrigin(self.dst, << >>) ]
        cname == RRset(message.name, DEFAULT_TTL, RdClassFromText("IN"),
                       RdTypeFromText("CNAME"), NameFromTextOrigin(self.dst, << >>))
    IN  Logged(Return(<< ToWire([ MakeResponse(message) EXCEPT
                                    !.answer = Append(@, cname) ]) >>,
                      renamed),
               << >>)

\* RedirectRule.dispatch
RedirectDispatch(self, message, extras) ==
    LET response == MakeResponse(message)
        cname == RRset(message.name, DEFAULT_TTL, RdClassFromText("IN"),
                       RdTypeFromText("CNAME"), NameFromTextOrigin(self.dst, << >>))
    IN  Logged(Return(<< ToWire([ response EXCEPT !.answer = Append(@, cname) ]) >>,
                      message),
               << >>)

\* mutant of BlockDispatch: the block is logged and no response is returned
BlockDispatchLogOnly(self, message, extras) ==
    Logged(Return(<< >>, message),
           << LogLine("warn", "blocking query", self, message, PopContext(extras)) >>)

\* mutant of BlockDispatch: the response is made without the query's id
BlockDispatchFreshId(self, message, extras) ==
    Logged(Return(<< ToWire(MakeResponse([ message EXCEPT !.id = 0 ])) >>, message),
           << LogLine("warn", "blocking query", self, message, PopContext(extras)) >>)

\* BlockRule.dispatch
BlockDispatch(self, message, extras) ==
    LET context == PopContext(extras)
    IN  Logged(Return(<< ToWire(MakeResponse(message)) >>, message),
               << LogLine("warn", "blocking query", self, message, context) >>)

\* mutant of ConditionalBlockDispatch: the class filter is not looked at
ConditionalBlockDispatchTypeOnly(self, message, extras) ==
    IF self.rdtype # {} /\ { message.rdtype } # self.rdtype
    THEN Logged(Return(<< >>, message), << >>)
    ELSE Logged(Return(<< ToWire(MakeResponse(message)) >>, message),
                << LogLine("warn", "conditional block", self, message,
                           PopContext(extras)) >>)

\* ConditionalBlockRule.dispatch
ConditionalBlockDispatch(self, message, extras) ==
    LET context == PopContext(extras)
    IN  IF self.rdtype # {} /\ { message.rdtype } # self.rdtype
        THEN Logged(Return(<< >>, message), << >>)
        ELSE IF self.rdclass # {} /\ { message.rdclass } # self.rdclass
        THEN Logged(Return(<< >>, message), << >>)
        ELSE Logged(Return(<< ToWire(MakeResponse(message)) >>, message),
                    << LogLine("warn", "conditional block", self, message,
                               context) >>)

\* mutant of LoggingDispatch: the context is popped without a default, so a
\* call without one raises
LoggingDispatchRequiresContext(self, message, extras) ==
    IF extras.context = << >>
    THEN Logged(Raise([ kind |-> "KeyError", text |-> << "context" >> ], message),
                << >>)
    ELSE Logged(Return(<< >>, message),
                << LogLine("info", "logging query", self, message,
                           extras.context[1]) >>)

\* LoggingRule.dispatch
LoggingDispatch(self, message, extras) ==
    LET context == PopContext(extras)
    IN  Logged(Return(<< >>, message),
               << LogLine("info", "logging query", self, message, context) >>)

\* mutant of RewriteDispatch: the pattern text is stored as it is, not as a name
RewriteDispatchRawText(self, message, extras) ==
    Logged(Return(<< >>, [ message EXCEPT !.name = self.pattern ]), << >>)

\* mutant of RewriteDispatch: the question name is left alone
RewriteDispatchNoMutation(self, message, extras) ==
    Logged(Return(<< >>, message), << >>)

\* dns.name.EmptyLabel, raised by dns.name.from_text
EmptyLabel(text) == [ kind |-> "EmptyLabel", text |-> text ]

\* RewriteRule.dispatch: message.question[0].name = dns.name.from_text(pattern);
\* the text is parsed here, at every call, and the parse raises on an empty
\* label before the name is assigned
RewriteDispatch(self, message, extras) ==
    IF HasEmptyLabel(self.pattern)
    THEN Logged(Raise(EmptyLabel(self.pattern), message), << >>)
    ELSE Logged(Return(<< >>, [ message EXCEPT !.name = NameFromText(self.pattern) ]),
                << >>)

(***************************************************************************)
(* The race of ResolveRule.dispatch and CNameRule.dispatch.                *)
(***************************************************************************)
\* what an upstream lookup can raise inside a task (dns.exception.Timeout
\* after self.timeout, or any other failure of the query)
TaskErrors == { "Timeout" }

\* the answer sections an upstream server can send back to a forwarded query
UpstreamSections ==
    { << >>,
      << RRset(<< "a", "." >>, 60, 1, 1, << "10.0.0.1" >>) >> }

\* the records an upstream lookup of the destination can yield
UpstreamRecord(rdclass, rdtype, address) ==
    [ rdclass |-> rdclass, rdtype |-> rdtype, address |-> address ]

UpstreamAnswers ==
    { << UpstreamRecord(1, 1, << "10.0.0.1" >>) >>,
      << UpstreamRecord(1, 16, << "text" >>), UpstreamRecord(1, 28, << "::1" >>),
         UpstreamRecord(3, 1, << "10.0.0.2" >>),
         UpstreamRecord(1, 1, << "10.0.0.3" >>) >> }

\* pool.submit(_resolver, message, resolver): the future of a work item of
\* rule number `rule`; it is pending (queued), running (a worker has it) or
\* finished with a result or an exception
Future(rule, message, resolver) ==
    [ rule |-> rule, message |-> message, resolver |-> resolver,
      state |-> "pending", result |-> << >>, exception |-> << >> ]

\* mutant of NewFutures: every resolver is submitted RETRIES times
NewFuturesRetried(rule, self, message) ==
    [ i \in 1..(RETRIES * Len(self.resolvers)) |->
        Future(rule, message, self.resolvers[((i - 1) % Len(self.resolvers)) + 1]) ]

\* fs = [self.pool.submit(_resolver, message, resolver)
\*       for resolver in self.resolvers]: one future per resolver, in the
\* order of the resolver list
NewFutures(rule, self, message) ==
    [ i \in 1..Len(self.resolvers) |-> Future(rule, message, self.resolvers[i]) ]

\* ResolveRule.dispatch._resolver: dns.query.udp(message, resolver).to_wire();
\* the reply of a server is a response to the message it was sent
ResolveTaskResults(message) ==
    { ToWire([ MakeResponse(message) EXCEPT !.answer = section ]) :
        section \in UpstreamSections }

\* CNameRule.dispatch._resolver: resolver.query(self.dst, "A")
CNameTaskResults(message) == UpstreamAnswers

\* errors.NetworkError('could not resolve query %s using %s')
NetworkError(message, resolvers) ==
    [ kind |-> "NetworkError", message |-> message, resolvers |-> resolvers ]

\* mutant of ResolveFinish: the exception is logged and nothing is raised
ResolveFinishSwallow(self, message, result) ==
    IF result.exception = << >>
    THEN Return(result.result, message)
    ELSE Return(<< >>, message)

\* mutant of ResolveFinish: the result is not returned, so the raise at the
\* end of dispatch is reached after a success too
ResolveFinishNoReturn(self, message, result) ==
    Raise(NetworkError(message, self.resolvers), message)

\* ResolveRule.dispatch from the popped future on (lines 181-187)
ResolveFinish(self, message, result) ==
    IF result.exception = << >>
    THEN Return(result.result, message)
    ELSE Raise(NetworkError(message, self.resolvers), message)

\* mutant of IsAddressRecord: the class of the upstream record is not looked at
IsAddressRecordAnyClass(a) ==
    a.rdtype = RdTypeFromText("A") \/ a.rdtype = RdTypeFromText("AAAA")

\* the test of CNameRule.dispatch's loop over the upstream answer
IsAddressRecord(a) ==
    a.rdclass = RdClassFromText("IN")
    /\ (a.rdtype = RdTypeFromText("A") \/ a.rdtype = RdTypeFromText("AAAA"))

\* CNameRule.dispatch from the popped future on (lines 239-257)
CNameFinish(self, message, result) ==
    IF result.exception = << >>
    THEN LET response == MakeResponse(message)
             resp_data == RRset(message.name, DEFAULT_TTL, RdClassFromText("IN"),
                                RdTypeFromText("CNAME"),
                                NameFromTextOrigin(self.dst, << >>))
             r == SelectSeq(result.result[1], IsAddressRecord)
             a_recs == [ i \in 1..Len(r) |->
                           RRset(NameFromTextOrigin(self.dst, << >>), DEFAULT_TTL,
                                 RdClassFromText("IN"), r[i].rdtype, r[i].address) ]
         IN  Return(<< ToWire([ response EXCEPT
                                  !.answer = << resp_data >> \o a_recs ]) >>,
                    message)
    ELSE Raise(NetworkError(message, self.resolvers), message)

(***************************************************************************)
(* State.                                                                  *)
(***************************************************************************)
VARIABLES
    ruleset,    \* the RuleSet: a sequence of rules, built once
    query,      \* the query as the listener handed it to evaluate
    message,    \* the query object the rules are dispatched on (Rewrite mutates it)
    pc,         \* where evaluate is: "match", "wait" (in futures.wait) or "done"
    idx,        \* position in the RuleSet of the rule considered next
    depth,      \* rewrite-chain depth: passes restarted after a rewrite
    rewritten,  \* a Rewrite rule fired in the current pass
    outcome,    \* << >> while evaluate runs, then << what it ended with >>
    fs,         \* the futures of the race of the dispatch in progress
    queue,      \* the pool's work queue: futures (indices of fs) not yet taken
    completed,  \* history: the futures of the evaluation's race, as they finished
    inspected,  \* history: the future futures.wait(...).done.pop() gave
    trace,      \* history: the dispatch calls of this evaluation, in order
    calls       \* the dispatch calls made on one rule by concurrent callers

vars == << ruleset, query, message, pc, idx, depth, rewritten, outcome, fs,
           queue, completed, inspected, trace, calls >>

(***************************************************************************)
(* The inputs: rules, RuleSets and queries.                                *)
(***************************************************************************)
Resolvers == { << "r1" >>, << "r1", "r2" >> }

RuleUniverse ==
    { BlockRule(d) : d \in { "^a$", ".*" } }
    \cup { LoggingRule(".*") }
    \cup { RedirectRule("^a$", dst) : dst \in { << "b" >>, << "b", "." >> } }
    \cup { ConditionalBlockRule(".*", t, c) :
             t \in { {}, { "MX" } }, c \in { {}, { "IN" } } }
    \cup { ResolveRule(".*", rs) : rs \in Resolvers }
    \cup { CNameRule("^b$", dst, rs) :
             dst \in { << "a" >>, << "a", "." >> }, rs \in Resolvers }
    \cup { RewriteRule("^a$", << "a" >>), RewriteRule("^a$", << "b" >>),
           RewriteRule("^b$", << "a", "." >>), RewriteRule(".*", << "b", "." >>),
           RewriteRule("^b$", << "a", ".", ".", "b" >>) }

RuleSets == UNION { [ 1..n -> RuleUniverse ] : n \in 1..MaxRules }

Queries ==
    { Query(id, name, rdtype, rdclass) :
        id \in { 7 }, name \in Names,
        rdtype \in { RdTypeFromText("A"), RdTypeFromText("MX") },
        rdclass \in { RdClassFromText("IN"), RdClassFromText("ANY") } }

Init ==
    /\ ruleset \in RuleSets
    /\ query \in Queries
    /\ message = query
    /\ pc = "match"
    /\ idx = 1
    /\ depth = 0
    /\ rewritten = FALSE
    /\ outcome = << >>
    /\ fs = << >>
    /\ queue = << >>
    /\ completed = << >>
    /\ inspected = 0
    /\ trace = << >>
    /\ calls = << >>

(***************************************************************************)
(* The Rule Engine (specification 4.1): evaluate(query).  A pass goes      *)
(* through the RuleSet in order and dispatches every rule whose pattern    *)
(* matches the current question name.  Responded and Failed end the        *)
(* evaluation at once; NoAction goes on with the next rule, against the    *)
(* name a Rewrite may have left.  A pass in which a Rewrite fired and no   *)
(* rule responded is followed by a new pass from the top, one level        *)
(* deeper; beyond MaxDepth the evaluation fails with RewriteLoopError.     *)
(***************************************************************************)
RaceKinds == { "Resolve", "CName" }

\* the rule's pattern matches the question name
Matches(self, msg) == msg.name \in self.RE

\* dispatch of the variants that do not race
Dispatch(self, msg, extras) ==
    CASE self.kind = "Redirect" -> RedirectDispatch(self, msg, extras)
      [] self.kind = "Block" -> BlockDispatch(self, msg, extras)
      [] self.kind = "ConditionalBlock" -> ConditionalBlockDispatch(self, msg, extras)
      [] self.kind = "Logging" -> LoggingDispatch(self, msg, extras)
      [] self.kind = "Rewrite" -> RewriteDispatch(self, msg, extras)

\* the rest of a racing dispatch, from the popped future on
Finish(self, msg, result) ==
    CASE self.kind = "Resolve" -> ResolveFinish(self, msg, result)
      [] self.kind = "CName" -> CNameFinish(self, msg, result)

\* what the task of a racing rule can return
TaskResults(self, msg) ==
    CASE self.kind = "Resolve" -> ResolveTaskResults(msg)
      [] self.kind = "CName" -> CNameTaskResults(msg)

RewriteLoopError(msg) == [ kind |-> "RewriteLoopError", message |-> msg ]

\* the three outcomes of a call
Responded(out) == out.exc = << >> /\ out.ret # << >>
NoAction(out) == out.exc = << >> /\ out.ret = << >>
Failed(out) == out.exc # << >>

\* mutant of Handle: a response does not end the pass
HandleNoShortCircuit(before, out) ==
    /\ trace' = Append(trace, [ idx |-> idx, depth |-> depth, before |-> before,
                                out |-> out ])
    /\ message' = out.message
    /\ IF Failed(out)
       THEN /\ outcome' = << [ ret |-> out.ret, exc |-> out.exc ] >>
            /\ pc' = "done"
            /\ UNCHANGED << idx, rewritten >>
       ELSE /\ idx' = idx + 1
            /\ rewritten' = (rewritten \/ ruleset[idx].kind = "Rewrite")
            /\ pc' = "match"
            /\ UNCHANGED outcome
    /\ UNCHANGED << ruleset, query, depth, calls >>

\* the engine takes the outcome `out` of the dispatch of rule idx, which was
\* called with the message `before`
Handle(before, out) ==
    /\ trace' = Append(trace, [ idx |-> idx, depth |-> depth, before |-> before,
                                out |-> out ])
    /\ message' = out.message
    /\ IF Failed(out) \/ Responded(out)
       THEN /\ outcome' = << [ ret |-> out.ret, exc |-> out.exc ] >>
            /\ pc' = "done"
            /\ UNCHANGED << idx, rewritten >>
       ELSE /\ idx' = idx + 1
            /\ rewritten' = (rewritten \/ ruleset[idx].kind = "Rewrite")
            /\ pc' = "match"
            /\ UNCHANGED outcome
    /\ UNCHANGED << ruleset, query, depth, calls >>

\* the rule at idx does not match: it is passed over
Skip ==
    /\ pc = "match" /\ idx <= Len(ruleset)
    /\ ~Matches(ruleset[idx], message)
    /\ idx' = idx + 1
    /\ UNCHANGED << ruleset, query, message, pc, depth, rewritten, outcome, fs,
                    queue, completed, inspected, trace, calls >>

\* the rule at idx matches and does not race: its dispatch runs to its end
DispatchRule ==
    /\ pc = "match" /\ idx <= Len(ruleset)
    /\ Matches(ruleset[idx], message)
    /\ ruleset[idx].kind \notin RaceKinds
    /\ \E extras \in ExtrasSet :
         Handle(message, Outcome(Dispatch(ruleset[idx], message, extras)))
    /\ UNCHANGED << fs, queue, completed, inspected >>

\* the rule at idx matches and races: dispatch submits one task per resolver
\* to the rule's pool (line 178 / 236) and enters futures.wait
Submit ==
    /\ pc = "match" /\ idx <= Len(ruleset)
    /\ Matches(ruleset[idx], message)
    /\ ruleset[idx].kind \in RaceKinds
    /\ fs' = NewFutures(idx, ruleset[idx], message)
    /\ queue' = [ i \in 1..Len(fs') |-> i ]
    /\ completed' = << >>
    /\ pc' = "wait"
    /\ UNCHANGED << ruleset, query, message, idx, depth, rewritten, outcome,
                    inspected, trace, calls >>

Running == { i \in 1..Len(fs) : fs[i].state = "running" }
Done == { i \in 1..Len(fs) : fs[i].state = "finished" }

\* a worker of the pool takes the next work item of the queue; the pool has
\* max_workers threads
WorkerRun ==
    /\ queue # << >>
    /\ Cardinality(Running) < ruleset[fs[Head(queue)].rule].max_workers
    /\ fs' = [ fs EXCEPT ![Head(queue)].state = "running" ]
    /\ queue' = Tail(queue)
    /\ UNCHANGED << ruleset, query, message, pc, idx, depth, rewritten, outcome,
                    completed, inspected, trace, calls >>

\* the task of future i ends: _resolver returned or raised, and the future
\* takes the result or the exception
TaskEnds(i) ==
    /\ i \in Running
    /\ \/ \E r \in TaskResults(ruleset[fs[i].rule], fs[i].message) :
            fs' = [ fs EXCEPT ![i].state = "finished", ![i].result = << r >> ]
       \/ \E e \in TaskErrors :
            fs' = [ fs EXCEPT ![i].state = "finished", ![i].exception = << e >> ]

\* a task of the race of the evaluation ends
TaskComplete(i) ==
    /\ TaskEnds(i)
    /\ completed' = Append(completed, i)
    /\ UNCHANGED << ruleset, query, message, pc, idx, depth, rewritten, outcome,
                    queue, inspected, trace, calls >>

\* futures.wait(fs, FIRST_COMPLETED) returns once a future of fs is finished,
\* with the set of all that are finished by then; .done.pop() takes one of
\* that set, and the dispatch goes on with it
WaitReturn ==
    /\ pc = "wait"
    /\ \E f \in Done :
        /\ inspected' = f
        /\ Handle(message, Finish(ruleset[idx], message, fs[f]))
    /\ UNCHANGED << fs, queue, completed >>

\* the pass reached the end of the RuleSet
EndPass ==
    /\ pc = "match" /\ idx > Len(ruleset)
    /\ IF rewritten
       THEN IF depth + 1 > MaxDepth
            THEN /\ outcome' = << [ ret |-> << >>,
                                    exc |-> << RewriteLoopError(message) >> ] >>
                 /\ pc' = "done"
                 /\ UNCHANGED << idx, depth, rewritten >>
            ELSE /\ depth' = depth + 1
                 /\ idx' = 1
                 /\ rewritten' = FALSE
                 /\ UNCHANGED << outcome, pc >>
       ELSE /\ outcome' = << [ ret |-> << >>, exc |-> << >> ] >>
            /\ pc' = "done"
            /\ UNCHANGED << idx, depth, rewritten >>
    /\ UNCHANGED << ruleset, query, message, fs, queue, completed, inspected,
                    trace, calls >>

Next ==
    \/ Skip
    \/ DispatchRule
    \/ Submit
    \/ WorkerRun
    \/ \E i \in 1..Len(fs) : TaskComplete(i)
    \/ WaitReturn
    \/ EndPass

Spec == Init /\ [][Next]_vars

(***************************************************************************)
(* Many dispatch calls on one racing rule.  The pool is made once, in the  *)
(* rule's __init__, and every dispatch call on the rule submits to it; the *)
(* callers are threads of the listener, each with its own query.  The      *)
(* RuleSet is the one rule, fs holds every work item the pool was given,   *)
(* and the workers (WorkerRun, TaskComplete) are those of the engine       *)
(* model above.                                                            *)
(***************************************************************************)
\* number of dispatch calls made on the rule
MaxCalls == 2

\* a dispatch call: where it is ("idle" before the call, "wait" in
\* futures.wait, "returned"), its query, its local list fs (indices into the
\* pool's work items), the future it popped and what it ended with
Call(msg) ==
    [ pc |-> "idle", message |-> msg, fs |-> << >>, inspected |-> 0,
      out |-> << >> ]

\* the rules that own a pool
RacingRules == { r \in RuleUniverse : r.kind \in RaceKinds }

PoolInit ==
    /\ ruleset \in { << r >> : r \in RacingRules }
    /\ query = Query(0, << "a", "." >>, RdTypeFromText("A"), RdClassFromText("IN"))
    /\ message = query
    /\ pc = "pool"
    /\ idx = 1
    /\ depth = 0
    /\ rewritten = FALSE
    /\ outcome = << >>
    /\ fs = << >>
    /\ queue = << >>
    /\ completed = << >>
    /\ inspected = 0
    /\ trace = << >>
    /\ \E name \in ruleset[1].RE :
         calls = [ c \in 1..MaxCalls |->
                     Call(Query(c, name, RdTypeFromText("A"),
                                RdClassFromText("IN"))) ]

\* mutant of WaitSet: the call waits on every work item of the pool
WaitSetShared(c) == 1..Len(fs)

\* the futures a call waits on: its own list fs (futures.wait(fs, ...))
WaitSet(c) == { calls[c].fs[j] : j \in DOMAIN calls[c].fs }

\* call c enters dispatch: it submits its tasks to the rule's pool and waits;
\* the calls are numbered in the order they enter
CallSubmit(c) ==
    /\ calls[c].pc = "idle"
    /\ IF c = 1 THEN TRUE ELSE calls[c - 1].pc # "idle"
    /\ LET new == NewFutures(1, ruleset[1], calls[c].message)
       IN  /\ fs' = fs \o new
           /\ queue' = queue \o [ j \in 1..Len(new) |-> Len(fs) + j ]
           /\ calls' = [ calls EXCEPT ![c].pc = "wait",
                           ![c].fs = [ j \in 1..Len(new) |-> Len(fs) + j ] ]
    /\ UNCHANGED << ruleset, query, message, pc, idx, depth, rewritten, outcome,
                    completed, inspected, trace >>

\* futures.wait of call c returns, .done.pop() gives one finished future of
\* its list, and the call returns or raises on it
CallReturn(c) ==
    /\ calls[c].pc = "wait"
    /\ \E f \in { i \in WaitSet(c) : fs[i].state = "finished" } :
         calls' = [ calls EXCEPT ![c].pc = "returned", ![c].inspected = f,
                      ![c].out = << Finish(ruleset[1], calls[c].message, fs[f]) >> ]
    /\ UNCHANGED << ruleset, query, message, pc, idx, depth, rewritten, outcome,
                    fs, queue, completed, inspected, trace >>

\* a task of the pool ends, whether the call that submitted it still waits
\* or has returned
PoolTaskComplete(i) ==
    /\ TaskEnds(i)
    /\ UNCHANGED << ruleset, query, message, pc, idx, depth, rewritten, outcome,
                    queue, completed, inspected, trace, calls >>

PoolNext ==
    \/ \E c \in 1..MaxCalls : CallSubmit(c)
    \/ WorkerRun
    \/ \E i \in 1..Len(fs) : PoolTaskComplete(i)
    \/ \E c \in 1..MaxCalls : CallReturn(c)

PoolSpec == PoolInit /\ [][PoolNext]_vars

\* the threads are scheduled: a free worker takes the next work item, a
\* running task ends (dns.query.udp and Resolver.query give up after their
\* timeout), and a caller whose wait can return does return
PoolFairSpec ==
    /\ PoolSpec
    /\ WF_vars(WorkerRun)
    /\ WF_vars(\E i \in 1..Len(fs) : PoolTaskComplete(i))
    /\ WF_vars(\E c \in 1..MaxCalls : CallReturn(c))

(***************************************************************************)
(* Properties.                                                             *)
(***************************************************************************)
LastCall == trace[Len(trace)]

\* the dispatch of a racing rule has returned or raised
RaceReturned == inspected # 0

\* the record of the racing dispatch in trace
RaceCall == CHOOSE k \in DOMAIN trace : ruleset[trace[k].idx].kind \in RaceKinds

IsNetworkError(out) == Failed(out) /\ out.exc[1].kind = "NetworkError"

\* C1: in a race over two or more resolvers, if the task that completed first
\* ended with an error, the dispatch fails with NetworkError, whatever the
\* other tasks of the race did.
C1_FirstCompletedErrorFails ==
    (RaceReturned /\ Len(fs) >= 2 /\ fs[completed[1]].exception # << >>)
        => IsNetworkError(trace[RaceCall].out)

\* C2: in a Resolve race, if the task that completed first ended without
\* error, the dispatch returns that task's response, unchanged.
C2_FirstCompletedResponseReturned ==
    (RaceReturned /\ ruleset[trace[RaceCall].idx].kind = "Resolve"
       /\ fs[completed[1]].exception = << >>)
        => /\ Responded(trace[RaceCall].out)
           /\ trace[RaceCall].out.ret = fs[completed[1]].result

(***************************************************************************)
(* The passes of an evaluation, read off the trace.  Pass d is the pass    *)
(* run at rewrite-chain depth d; position (d, j) is rule j in pass d.      *)
(***************************************************************************)
Dispatched(d, j) == \E k \in DOMAIN trace : trace[k].depth = d /\ trace[k].idx = j

\* evaluate has gone past position (d, j)
Considered(d, j) ==
    \/ d < depth
    \/ d = depth /\ j < idx
    \/ Dispatched(d, j)

\* the calls made at or after position (d, j)
CallsFrom(d, j) ==
    { k \in DOMAIN trace :
        trace[k].depth > d \/ (trace[k].depth = d /\ trace[k].idx >= j) }

\* the message as it was when evaluate was at position (d, j): only a
\* dispatch changes it, so it is the message the next call was given
MessageAt(d, j) ==
    IF CallsFrom(d, j) = {} THEN message
    ELSE trace[CHOOSE k \in CallsFrom(d, j) : \A m \in CallsFrom(d, j) : k <= m].before

\* the rules evaluate has gone past were dispatched exactly when they matched
\* the question name of that moment
DispatchedIffMatched ==
    \A d \in 0..depth, j \in 1..Len(ruleset) :
        Considered(d, j) => (Dispatched(d, j) <=> Matches(ruleset[j], MessageAt(d, j)))

\* C3: within a pass the matching rules are dispatched in RuleSet order, none
\* passed over and none ahead of its turn; the first rule that responds ends
\* the evaluation with its response, and no rule is dispatched after it.
C3_OrderAndShortCircuit ==
    /\ \A j, k \in DOMAIN trace :
         j < k => \/ trace[j].depth < trace[k].depth
                  \/ trace[j].depth = trace[k].depth /\ trace[j].idx < trace[k].idx
    /\ DispatchedIffMatched
    /\ \A k \in DOMAIN trace :
         Responded(trace[k].out) =>
            /\ k = Len(trace)
            /\ pc = "done"
            /\ outcome = << [ ret |-> trace[k].out.ret, exc |-> << >> ] >>

\* C3 witness: a rule responded while a later rule of the RuleSet, which
\* matches the name too, was left undispatched
C3_Witness ==
    /\ pc = "done" /\ trace # << >> /\ Responded(LastCall.out)
    /\ Len(trace) >= 2
    /\ LastCall.idx < Len(ruleset)
    /\ Matches(ruleset[LastCall.idx + 1], message)

\* C4: a Failed outcome of a dispatch ends the evaluation with that failure,
\* and no rule is dispatched after it; a race whose inspected task ended with
\* an error is such a failure, whatever rules follow.
C4_FailedAbortsPass ==
    /\ \A k \in DOMAIN trace :
         Failed(trace[k].out) =>
            /\ k = Len(trace)
            /\ pc = "done"
            /\ outcome = << [ ret |-> << >>, exc |-> trace[k].out.exc ] >>
    /\ (RaceReturned /\ fs[inspected].exception # << >>) =>
            /\ pc = "done"
            /\ IsNetworkError(outcome[1])
            /\ ruleset[LastCall.idx].kind \in RaceKinds

\* C4 witness: the evaluation failed in a race although the next rule is a
\* Block that matches the name
C4_Witness ==
    /\ pc = "done" /\ IsNetworkError(outcome[1])
    /\ idx < Len(ruleset)
    /\ ruleset[idx + 1].kind = "Block"
    /\ Matches(ruleset[idx + 1], message)

\* the evaluation ended because the rewrite-chain depth was exceeded
DepthExceeded == pc = "done" /\ rewritten /\ idx > Len(ruleset) /\ depth + 1 > MaxDepth

IsEmptyAnswer(out, msg) ==
    /\ Responded(out)
    /\ out.ret[1].wire.answer = << >>
    /\ out.ret[1].wire.question.name = msg.name

\* C5 as stated: whenever no dispatch responded and none failed, the
\* evaluation ends in NoAction.
C5_NoResponderGivesNoAction ==
    (pc = "done" /\ \A k \in DOMAIN trace : NoAction(trace[k].out))
        => NoAction(outcome[1])

\* C5 amended: whenever no dispatch responded, none failed and the
\* rewrite-chain depth was not exceeded, the evaluation ends in NoAction; with
\* the RuleSet [block ^a$] a query for b ends in NoAction and a query for a in
\* an empty-answer response.
C5_NoResponderGivesNoActionUnlessLoop ==
    /\ (pc = "done" /\ ~DepthExceeded /\ \A k \in DOMAIN trace : NoAction(trace[k].out))
          => NoAction(outcome[1])
    /\ (pc = "done" /\ ruleset = << BlockRule("^a$") >>) =>
          IF query.name = << "a", "." >>
          THEN IsEmptyAnswer(outcome[1], query)
          ELSE NoAction(outcome[1])

\* C5 witness: a RuleSet whose matching rules all declined, ending in NoAction
C5_Witness ==
    /\ pc = "done" /\ NoAction(outcome[1])
    /\ trace # << >>

(***************************************************************************)
(* Termination.  Rank is a natural number that every step of evaluate      *)
(* lowers; FullRank adds the work left in the futures, so that every step  *)
(* of the system lowers it.                                                *)
(***************************************************************************)
PassWeight == 2 * Len(ruleset) + 4

Rank ==
    IF pc = "done" THEN 0
    ELSE (MaxDepth - depth) * PassWeight
         + 2 * (Len(ruleset) + 1 - idx)
         + (IF pc = "match" THEN 1 ELSE 0)
         + 1

\* the steps a future still has to take: taken by a worker, finished
FutureRank(f) ==
    CASE f.state = "pending" -> 2
      [] f.state = "running" -> 1
      [] f.state = "finished" -> 0

RECURSIVE SumFutureRank(_)
SumFutureRank(futures) ==
    IF futures = << >> THEN 0
    ELSE FutureRank(Head(futures)) + SumFutureRank(Tail(futures))

LongestResolverList ==
    CHOOSE n \in { Len(r) : r \in Resolvers } : \A r \in Resolvers : Len(r) <= n

FullRank == Rank * (2 * LongestResolverList + 1) + SumFutureRank(fs)

IsRewriteLoopError(out) == Failed(out) /\ out.exc[1].kind = "RewriteLoopError"

\* C6: a RuleSet with a Rewrite self-loop or a cycle of Rewrite rules never
\* hangs: every step of an evaluation lowers a natural-valued rank and an
\* unfinished evaluation can always take a step, so every evaluation ends;
\* the depth never passes the maximum, an evaluation that would exceed it ends
\* in Failed with RewriteLoopError, and [rewrite ^a$ to a] on a query for a
\* ends that way.
C6_RewriteLoopsTerminate ==
    /\ [](/\ FullRank >= 0
          /\ depth <= MaxDepth
          /\ (pc # "done" => ENABLED Next)
          /\ (DepthExceeded <=> (pc = "done" /\ IsRewriteLoopError(outcome[1])))
          /\ (pc = "done" /\ ruleset = << RewriteRule("^a$", << "a" >>) >>
                 /\ query.name = << "a", "." >>)
                => IsRewriteLoopError(outcome[1]))
    /\ [][FullRank' < FullRank]_vars

\* C6 witness: a cycle of two Rewrite rules (a to b, b to a) ended in
\* RewriteLoopError
C6_Witness ==
    /\ pc = "done" /\ IsRewriteLoopError(outcome[1])
    /\ Len(ruleset) = 2
    /\ ruleset[1].pattern # ruleset[2].pattern
    /\ depth = MaxDepth

\* C7: every rule is dispatched on the message the previous dispatch left, so
\* the rule dispatched after a Rewrite is matched against (and given) the
\* name the Rewrite wrote; rules that did not match that name are passed
\* over; and no rule is dispatched twice in one pass.
C7_LaterRulesSeeRewrittenName ==
    /\ \A k \in DOMAIN trace :
         /\ Matches(ruleset[trace[k].idx], trace[k].before)
         /\ trace[k].before = (IF k = 1 THEN query ELSE trace[k - 1].out.message)
         /\ (k > 1 /\ ruleset[trace[k - 1].idx].kind = "Rewrite") =>
               trace[k].before.name = NameFromText(ruleset[trace[k - 1].idx].pattern)
    /\ DispatchedIffMatched
    /\ \A j, k \in DOMAIN trace :
         (trace[j].depth = trace[k].depth /\ trace[j].idx = trace[k].idx) => j = k

\* C7 witness: in one pass a Rewrite fired and a later rule, whose pattern
\* does not match the original name, was dispatched on the rewritten name
C7_Witness ==
    \E k \in DOMAIN trace :
        /\ k > 1
        /\ trace[k - 1].depth = trace[k].depth
        /\ ruleset[trace[k - 1].idx].kind = "Rewrite"
        /\ ~Matches(ruleset[trace[k].idx], query)
        /\ trace[k].before.name # query.name

\* C8: a dispatch call and an evaluation never end with both a return value
\* and an exception; evaluate has an outcome exactly when it is done; a racing
\* dispatch that fails raises NetworkError, and only when the future it
\* inspected holds an exception.
C8_ExactlyOneOutcome ==
    /\ \A k \in DOMAIN trace :
         LET out == trace[k].out
         IN  /\ ~(out.ret # << >> /\ out.exc # << >>)
             /\ (ruleset[trace[k].idx].kind \in RaceKinds /\ Failed(out)) =>
                   /\ IsNetworkError(out)
                   /\ inspected # 0
                   /\ fs[inspected].exception # << >>
    /\ (pc = "done") <=> (outcome # << >>)
    /\ outcome # << >> => ~(outcome[1].ret # << >> /\ outcome[1].exc # << >>)

\* C8 witness: a race of two tasks in which one succeeded and one failed
\* ended in NetworkError
C8_Witness ==
    /\ pc = "done" /\ RaceReturned
    /\ IsNetworkError(outcome[1])
    /\ \E i \in Done : fs[i].exception = << >>

\* C9: ConditionalBlock responds exactly when the query's type equals the
\* type filter, if the rule has one, and its class equals the class filter, if
\* the rule has one, and returns None otherwise; with the filter "type is MX"
\* alone a query of type A gets None and a query of type MX a response,
\* whatever its class.
C9_ConditionalBlockIffFiltersMatch ==
    \A k \in DOMAIN trace :
        LET self == ruleset[trace[k].idx]
            q == trace[k].before
            out == trace[k].out
        IN  self.kind = "ConditionalBlock" =>
              /\ Responded(out) <=>
                    /\ (self.rdtype # {} => q.rdtype \in self.rdtype)
                    /\ (self.rdclass # {} => q.rdclass \in self.rdclass)
              /\ ~Responded(out) => NoAction(out)
              /\ self = ConditionalBlockRule(".*", { "MX" }, {}) =>
                    /\ q.rdtype = RdTypeFromText("A") => NoAction(out)
                    /\ q.rdtype = RdTypeFromText("MX") => Responded(out)

\* C9 witness: a rule with both filters declined a query whose type matches
\* and whose class does not
C9_Witness ==
    \E k \in DOMAIN trace :
        /\ ruleset[trace[k].idx] = ConditionalBlockRule(".*", { "MX" }, { "IN" })
        /\ trace[k].before.rdtype = RdTypeFromText("MX")
        /\ trace[k].before.rdclass = RdClassFromText("ANY")
        /\ NoAction(trace[k].out)

\* C10: a response of Block, and of ConditionalBlock when it responds, is a
\* response with no answer record, the question of the message the dispatch
\* was given and that message's transaction id.
C10_BlockResponseEchoesQuery ==
    \A k \in DOMAIN trace :
        LET q == trace[k].before
            out == trace[k].out
        IN  (ruleset[trace[k].idx].kind \in { "Block", "ConditionalBlock" }
               /\ (ruleset[trace[k].idx].kind = "Block" \/ Responded(out))) =>
              /\ Responded(out)
              /\ out.ret[1].wire.answer = << >>
              /\ out.ret[1].wire.question =
                    [ name |-> q.name, rdtype |-> q.rdtype, rdclass |-> q.rdclass ]
              /\ out.ret[1].wire.id = q.id
              /\ out.ret[1].wire.qr

\* C10 witness: a ConditionalBlock with a filter responded
C10_Witness ==
    \E k \in DOMAIN trace :
        /\ ruleset[trace[k].idx].kind = "ConditionalBlock"
        /\ ruleset[trace[k].idx].rdtype # {}
        /\ Responded(trace[k].out)

(***************************************************************************)
(* The synthesized responses.                                              *)
(***************************************************************************)
\* the answer section of the response a call returned
AnswerOf(out) == out.ret[1].wire.answer

\* the destination the Redirect and CName rules of RuleUniverse are
\* configured with, in fully-qualified form
QualifiedDst(self) ==
    IF self.kind = "Redirect" THEN << "b", "." >> ELSE << "a", "." >>

\* C11: a response of a Redirect or CName dispatch holds exactly one CNAME
\* record; its owner is the question name of the query, its target is the
\* configured destination in fully-qualified form, whether the configured
\* text ended with a dot or not, and its TTL is 300.
C11_OneCNameToQualifiedDestination ==
    /\ \A dst \in { << "b" >>, << "b", "." >> } :
         RedirectRule("^a$", dst) \in RuleUniverse
    /\ \A dst \in { << "a" >>, << "a", "." >> }, rs \in Resolvers :
         CNameRule("^b$", dst, rs) \in RuleUniverse
    /\ \A k \in DOMAIN trace :
         LET self == ruleset[trace[k].idx]
             out == trace[k].out
         IN  (self.kind \in { "Redirect", "CName" } /\ Responded(out)) =>
                /\ Cardinality({ i \in DOMAIN AnswerOf(out) :
                                   AnswerOf(out)[i].rdtype = 5 }) = 1
                /\ AnswerOf(out)[1] =
                       [ name |-> trace[k].before.name, ttl |-> 300, rdclass |-> 1,
                         rdtype |-> 5, rdata |-> QualifiedDst(self) ]
                /\ self.kind = "Redirect" => Len(AnswerOf(out)) = 1

\* a rule configured with "redirect ^a$ to b" (no trailing dot) answered a
\* query for a.
C11_Witness ==
    \E k \in DOMAIN trace :
        /\ ruleset[trace[k].idx] = RedirectRule("^a$", << "b" >>)
        /\ Responded(trace[k].out)
        /\ AnswerOf(trace[k].out)[1].rdata = << "b", "." >>
        /\ AnswerOf(trace[k].out)[1].name = << "a", "." >>

\* the records of an upstream answer that are of class IN and of type A or
\* AAAA, by their position in the answer
AddressPositions(up) ==
    { i \in DOMAIN up : up[i].rdclass = 1 /\ up[i].rdtype \in { 1, 28 } }

\* C12: a CName response is the CNAME record followed by exactly one address
\* record for each upstream record of class IN and type A or AAAA, in the
\* upstream order, each owned by the destination name, with TTL 300 and the
\* upstream address unchanged; upstream records of any other class or type
\* give no record.
C12_AddressRecordsFollowCName ==
    \A k \in DOMAIN trace :
        (ruleset[trace[k].idx].kind = "CName" /\ Responded(trace[k].out)) =>
            LET up == fs[inspected].result[1]
                records == Tail(AnswerOf(trace[k].out))
                kept == AddressPositions(up)
            IN  /\ AnswerOf(trace[k].out)[1].rdtype = 5
                /\ Len(records) = Cardinality(kept)
                /\ \A i \in kept :
                     records[Cardinality({ j \in kept : j <= i })] =
                         [ name |-> << "a", "." >>, ttl |-> 300, rdclass |-> 1,
                           rdtype |-> up[i].rdtype, rdata |-> up[i].address ]

\* a CName response built from an upstream answer of four records, two of
\* which (a TXT record and a record of class CH) are dropped
C12_Witness ==
    \E k \in DOMAIN trace :
        /\ ruleset[trace[k].idx].kind = "CName" /\ Responded(trace[k].out)
        /\ Len(fs[inspected].result[1]) = 4
        /\ Len(AnswerOf(trace[k].out)) = 3
        /\ AnswerOf(trace[k].out)[2].rdtype = 28
        /\ AnswerOf(trace[k].out)[3].rdata = << "10.0.0.3" >>

(***************************************************************************)
(* Rewrite.                                                                *)
(***************************************************************************)
\* C13: a Rewrite dispatch never returns a response: for every query it
\* returns NoAction, and after it the question name is the rule's configured
\* replacement name, whatever the name was before; a second dispatch of the
\* same rule leaves the name the first one left.
C13_RewriteReturnsNoActionAndSetsName ==
    \A k \in DOMAIN trace :
        LET self == ruleset[trace[k].idx]
            out == trace[k].out
        IN  self.kind = "Rewrite" =>
               /\ NoAction(out)
               /\ out.message.name = << self.pattern[1], "." >>
               /\ \A extras \in ExtrasSet :
                    Outcome(RewriteDispatch(self, out.message, extras)) = out

(***************************************************************************)
(* The context of a dispatch call.                                         *)
(***************************************************************************)
\* C14: the context passed to dispatch never affects control flow: whatever
\* the keyword arguments of a call were (no context, an empty one, one with
\* contents), the call with any other context would have ended with the same
\* return value or exception and would have left the query in the same state.
C14_ContextNeverAffectsOutcome ==
    \A k \in DOMAIN trace :
        LET self == ruleset[trace[k].idx]
        IN  self.kind \notin RaceKinds =>
               \A extras \in ExtrasSet :
                   Outcome(Dispatch(self, trace[k].before, extras)) = trace[k].out

\* a Logging dispatch was made, and its log line does depend on the context
C14_Witness ==
    \E k \in DOMAIN trace :
        LET self == ruleset[trace[k].idx]
        IN  /\ self.kind = "Logging"
            /\ \E e1, e2 \in ExtrasSet :
                 /\ PopContext(e1) # PopContext(e2)
                 /\ Dispatch(self, trace[k].before, e1).log
                        # Dispatch(self, trace[k].before, e2).log
                 /\ Outcome(Dispatch(self, trace[k].before, e1)) = trace[k].out
                 /\ Outcome(Dispatch(self, trace[k].before, e2)) = trace[k].out

(***************************************************************************)
(* What a dispatch does to the query, and how it can end.                  *)
(***************************************************************************)
\* C18: only Rewrite changes the query: a dispatch of Redirect, Block,
\* ConditionalBlock, Logging, Resolve or CName leaves the question name, the
\* record type, the record class and the transaction id as they were,
\* whatever its outcome.
C18_OnlyRewriteMutatesQuery ==
    \A k \in DOMAIN trace :
        ruleset[trace[k].idx].kind # "Rewrite" =>
            /\ trace[k].out.message.name = trace[k].before.name
            /\ trace[k].out.message.rdtype = trace[k].before.rdtype
            /\ trace[k].out.message.rdclass = trace[k].before.rdclass
            /\ trace[k].out.message.id = trace[k].before.id
            /\ (k = Len(trace) => message = trace[k].before)

\* a rule other than Rewrite was dispatched after a Rewrite had changed the
\* name, and its call ended with a response or an error
C18_Witness ==
    \E k \in DOMAIN trace :
        /\ ruleset[trace[k].idx].kind \in { "Redirect", "CName", "Resolve" }
        /\ ~NoAction(trace[k].out)
        /\ trace[k].before # query
        /\ message = trace[k].before

\* C20: Block, Logging, ConditionalBlock and Rewrite cannot fail: a dispatch
\* of one of them ends in Responded or NoAction, never in an error; the only
\* dispatches that end in an error are those of Resolve and CName, and their
\* error is NetworkError.
C20_OnlyRacesFail ==
    \A k \in DOMAIN trace :
        LET self == ruleset[trace[k].idx]
            out == trace[k].out
        IN  /\ self.kind \in { "Block", "Logging", "ConditionalBlock", "Rewrite" } =>
                 (Responded(out) \/ NoAction(out)) /\ ~Failed(out)
            /\ Failed(out) => self.kind \in RaceKinds /\ IsNetworkError(out)

(***************************************************************************)
(* Properties of the pool of one rule under many dispatch calls.           *)
(***************************************************************************)
\* the calls that are in futures.wait
Waiting == { c \in 1..MaxCalls : calls[c].pc = "wait" }

\* the tasks still running whose call has already returned
Abandoned ==
    { i \in Running :
        \E c \in 1..MaxCalls : calls[c].pc = "returned" /\ i \in WaitSet(c) }

\* C15: abandoned tasks of an earlier race cannot block a later race on the
\* same rule: after any sequence of dispatch calls, overlapping or not, every
\* task of a new race gets a worker at once, so that no task waits in the
\* queue for a worker that another task holds.
C15_NoTaskQueuedBehindAnother ==
    Cardinality(Running) + Len(queue) <= ruleset[1].max_workers

\* C16: every race terminates: each task ends, with an answer or a timeout
\* error, so a dispatch call that has entered its race eventually returns a
\* response or fails with NetworkError -- also when every resolver is
\* unresponsive and when abandoned tasks of earlier races still hold workers
\* of the pool.
C16_EveryRaceTerminates ==
    /\ \A c \in 1..MaxCalls :
         (calls[c].pc = "wait") ~> (calls[c].pc = "returned")
    /\ [](\A c \in 1..MaxCalls :
            calls[c].pc = "returned" =>
                \/ Responded(calls[c].out[1])
                \/ IsNetworkError(calls[c].out[1]))

\* a call failed with NetworkError although every one of its resolvers was
\* unresponsive and its tasks had to wait for workers that abandoned tasks of
\* an earlier race held; one of those is still running
C16_Witness ==
    \E c \in 1..MaxCalls :
        /\ calls[c].pc = "returned" /\ IsNetworkError(calls[c].out[1])
        /\ \A i \in WaitSet(c) : fs[i].state = "finished" /\ fs[i].exception # << >>
        /\ Abandoned # {}
        /\ \A i \in Abandoned : i < calls[c].fs[1]

\* C17: concurrent evaluations are independent: with several dispatch calls
\* at once on one rule, which share its pool, the outcome of each call is
\* decided only by a task that this call itself submitted for its own query
\* (a response carries the id and the question of the call's own query), and
\* no dispatch changes the parameters of the rule.
C17_CallsAreIndependent ==
    /\ [](\A c \in 1..MaxCalls :
            calls[c].pc = "returned" =>
                LET f == calls[c].inspected
                    out == calls[c].out[1]
                IN  /\ \E j \in DOMAIN calls[c].fs : calls[c].fs[j] = f
                    /\ fs[f].message = calls[c].message
                    /\ out.message = calls[c].message
                    /\ Responded(out) <=> fs[f].exception = << >>
                    /\ Responded(out) =>
                         /\ out.ret[1].wire.id = c
                         /\ out.ret[1].wire.question.name = calls[c].message.name
                    /\ Failed(out) => out.exc[1].message = calls[c].message)
    /\ [][ruleset' = ruleset]_vars

\* two calls are in their races at once, on the same pool: the second one
\* has returned a response to its own query while the first one, whose task
\* has failed, is still in futures.wait
C17_Witness ==
    /\ calls[1].pc = "wait" /\ calls[2].pc = "returned"
    /\ \E i \in WaitSet(1) : fs[i].exception # << >>
    /\ Responded(calls[2].out[1])
    /\ calls[2].out[1].ret[1].wire.id = 2
    /\ Len(fs) = 4

\* the work items of the pool that were submitted for the query of call c
TasksOf(c) == { i \in DOMAIN fs : fs[i].message = calls[c].message }

\* C19: no retries inside a dispatch: a Resolve or CName dispatch submits
\* exactly one task per configured resolver, in the order of the resolver
\* list, and never submits again, not even after a failure; a submitted task
\* produces at most one result.
C19_OneTaskPerResolverNoRetry ==
    /\ [](\A c \in 1..MaxCalls :
            IF calls[c].pc = "idle"
            THEN TasksOf(c) = {}
            ELSE /\ Cardinality(TasksOf(c)) = Len(ruleset[1].resolvers)
                 /\ Len(calls[c].fs) = Len(ruleset[1].resolvers)
                 /\ \A j \in DOMAIN calls[c].fs :
                      /\ calls[c].fs[j] \in TasksOf(c)
                      /\ fs[calls[c].fs[j]].resolver = ruleset[1].resolvers[j]
                 /\ \A j, k \in DOMAIN calls[c].fs :
                      j < k => calls[c].fs[j] < calls[c].fs[k])
    /\ [](\A i \in DOMAIN fs :
            IF fs[i].state = "finished"
            THEN Len(fs[i].result) + Len(fs[i].exception) = 1
            ELSE fs[i].result = << >> /\ fs[i].exception = << >>)
    /\ [][\A i \in DOMAIN fs : fs[i].state = "finished" => fs'[i] = fs[i]]_vars

\* a call over two resolvers failed with NetworkError, both of its tasks have
\* ended, and the pool was given exactly its two tasks for it
C19_Witness ==
    \E c \in 1..MaxCalls :
        /\ calls[c].pc = "returned" /\ IsNetworkError(calls[c].out[1])
        /\ Len(ruleset[1].resolvers) = 2
        /\ Cardinality(TasksOf(c)) = 2
        /\ \A i \in TasksOf(c) : fs[i].state = "finished"
        /\ \E i \in TasksOf(c) : fs[i].exception = << >>

====
